---- MODULE Spec2Model ----
(***************************************************************************)
(* Model of mcp_browser_use/server.py: the process-wide browser session    *)
(* (the globals browser and browser_context) and the tool handlers that    *)
(* read and write it.  Every handler is a coroutine; a task is one running *)
(* invocation of a handler, and its pc names the await it is suspended at. *)
(* The external library (Browser, BrowserContext, the page) is opaque: the *)
(* outcome of each call into it is a nondeterministic choice.              *)
(***************************************************************************)
EXTENDS Integers, Sequences, FiniteSets, TLC

\* ---------------------------------------------------------------- bounds
MaxTasks == 2
MaxSessions == 2
MaxFrames == 2

Tasks == 1..MaxTasks
Handles == 1..MaxSessions

\* Python's None, the initial value of both globals.
None == 0

VARIABLES
    browser,          \* global browser: None or the handle of a Browser
    browser_context,  \* global browser_context: None or the handle of a BrowserContext
    liveConn,         \* Browser handles constructed and not yet closed
    liveCtx,          \* BrowserContext handles constructed and not yet closed
    created,          \* number of Browser objects constructed so far
    task              \* the running invocations

vars == <<browser, browser_context, liveConn, liveCtx, created, task>>

\* A BrowserContext is constructed with browser=browser: handle k of a context
\* is the handle of the Browser it is bound to.

\* ------------------------------------------------------------ task records
\* op, pc: the handler and the await it is suspended at; res: its outcome.
\* close_browser: h is the handle whose close() is awaited, rel the release
\* calls made so far.  click_element and input_text: index, text, sens are the
\* arguments, inMap the answer of the membership test on the selector map,
\* calls and clicks the _click_element_node calls made and returned, sw the
\* switch_to_tab calls made, e1 the message of the exception the outer
\* handler caught, msg the result text built so far, written the (index,
\* text) typed into the element.  get_dropdown_options: nf is the length of
\* page.frames, probe the outcome of each frame visited so far, opts the
\* lines collected in all_options.  select_dropdown_option: tag is
\* dom_element.tag_name once the element is looked up.
Idle ==
    [op |-> "none", pc |-> "idle", h |-> None, rel |-> <<>>, res |-> <<>>,
     index |-> 0, text |-> "", sens |-> FALSE, inMap |-> FALSE,
     calls |-> 0, clicks |-> 0, sw |-> 0, e1 |-> <<>>,
     msg |-> <<>>, written |-> <<>>, closed |-> FALSE,
     nf |-> 0, probe |-> <<>>, opts |-> <<>>, tag |-> ""]

\* The record of a call of handler o as it arrives; closed notes whether there
\* was no context at that moment.
Call(o) == [Idle EXCEPT !.op = o, !.closed = (browser_context = None)]

\* The arguments tool calls are made with.
Indices == {1, 2}
Texts == {"hunter2", "hello"}

\* An f-string renders an int argument as its decimal digits.
Str(i) == CASE i = 0 -> "0" [] i = 1 -> "1" [] i = 2 -> "2" [] OTHER -> "n"

\* `needle in str(e)`: a message is a sequence of phrases.
Contains(msg, phrase) == \E k \in DOMAIN msg : msg[k] = phrase

Return(msg) == <<"return">> \o msg
Raise(msg) == <<"raise">> \o msg

Returned(t) == task[t].pc = "done" /\ task[t].res[1] = "return"
Raised(t) == task[t].pc = "done" /\ task[t].res[1] = "raise"

Done(rec, r) == [rec EXCEPT !.pc = "done", !.res = r]

\* The post-state of one atomic segment of task t: the globals and t's record.
Set(b, c, lc, lx, n, t, rec) ==
    /\ browser' = b
    /\ browser_context' = c
    /\ liveConn' = lc
    /\ liveCtx' = lx
    /\ created' = n
    /\ task' = [task EXCEPT ![t] = rec]

\* Only t's record changes (the segment wrote no global).
Local(t, rec) ==
    Set(browser, browser_context, liveConn, liveCtx, created, t, rec)

IsIdle(t) == task[t].pc = "idle"

\* ------------------------------------------------- initialize_browser: build
\* Lines 147-223, with no await in them: path resolution (which raises on an
\* unsupported OS), Browser(config), BrowserContext(browser=browser), and the
\* prompt that is returned.  b, c, lc, lx are the session values the segment
\* starts from.
ConstructOutcomes == {"unsupported_os", "browser_raises", "context_raises", "ok"}

ConstructSession(t, rec, b, c, lc, lx) ==
    \E o \in ConstructOutcomes :
        \/ /\ o = "unsupported_os"
           /\ Set(b, c, lc, lx, created, t,
                  Done(rec, Raise(<<"Unsupported operating system">>)))
        \/ /\ o = "browser_raises"
           /\ Set(b, c, lc, lx, created, t, Done(rec, Raise(<<"Browser">>)))
        \/ /\ o = "context_raises"
           /\ created < MaxSessions
           /\ Set(created + 1, c, lc \cup {created + 1}, lx, created + 1, t,
                  Done(rec, Raise(<<"BrowserContext">>)))
        \/ /\ o = "ok"
           /\ created < MaxSessions
           /\ Set(created + 1, created + 1, lc \cup {created + 1},
                  lx \cup {created + 1}, created + 1, t,
                  Done(rec, Return(<<"prompt">>)))

\* ------------------------------------------------------------ close_browser
ClosedMsg == <<"Browser closed successfully">>

\* Line 242: close_browser returns.  Called from a close_browser invocation
\* the tool call is over; called from initialize_browser (line 145) the
\* caller goes on to build the session, with no await in between.
CloseReturns(t, rec, b, c, lc, lx) ==
    IF rec.op = "close_browser"
    THEN Set(b, c, lc, lx, created, t, Done(rec, Return(ClosedMsg)))
    ELSE ConstructSession(t, rec, b, c, lc, lx)

\* Mutant: browser.close() is awaited without the `if browser:` test.
CloseFromConnUnguarded(t, rec, c, lx) ==
    IF browser # None
    THEN Set(browser, c, liveConn, lx, created, t,
             [rec EXCEPT !.pc = "close_conn", !.h = browser,
                         !.rel = Append(rec.rel, "connection")])
    ELSE Set(browser, c, liveConn, lx, created, t,
             Done([rec EXCEPT !.rel = Append(rec.rel, "connection")],
                  <<"raise", "'NoneType' object has no attribute">>))

\* Lines 238-242, entered with the context part behind it (c, lx: the context
\* values it left): `if browser: await browser.close()` suspends in the
\* release of the connection, and without a connection close_browser returns.
CloseFromConn(t, rec, c, lx) ==
    IF browser # None
    THEN Set(browser, c, liveConn, lx, created, t,
             [rec EXCEPT !.pc = "close_conn", !.h = browser,
                         !.rel = Append(rec.rel, "connection")])
    ELSE CloseReturns(t, rec, browser, c, liveConn, lx)

\* Lines 234-242 from the top: `if browser_context: await
\* browser_context.close()` suspends in the release of the context.
CloseFromStart(t, rec) ==
    IF browser_context # None
    THEN Local(t, [rec EXCEPT !.pc = "close_ctx", !.h = browser_context,
                              !.rel = Append(rec.rel, "context")])
    ELSE CloseFromConn(t, rec, browser_context, liveCtx)

\* The tool call close_browser() arrives.
InvokeClose(t) ==
    /\ IsIdle(t)
    /\ CloseFromStart(t, Call("close_browser"))

\* Mutant: line 236 is missing, the closed context stays in the global.
CtxCloseReturnsKeepsContext(t) ==
    /\ task[t].pc = "close_ctx"
    /\ CloseFromConn(t, task[t], browser_context, liveCtx \ {task[t].h})

\* Line 235 resumes: browser_context.close() returned, line 236 clears the
\* global, and the handler runs on to line 238.
CtxCloseReturns(t) ==
    /\ task[t].pc = "close_ctx"
    /\ CloseFromConn(t, task[t], None, liveCtx \ {task[t].h})

\* Line 235 resumes with an exception: nothing catches it, it leaves
\* close_browser (and initialize_browser when that is the caller).  Whether
\* the library released the context before raising is not known.
CtxCloseRaises(t) ==
    /\ task[t].pc = "close_ctx"
    /\ \E released \in BOOLEAN :
        Set(browser, browser_context, liveConn,
            IF released THEN liveCtx \ {task[t].h} ELSE liveCtx, created, t,
            Done(task[t], Raise(<<"context close failed">>)))

\* Line 239 resumes: browser.close() returned, line 240 clears the global.
ConnCloseReturns(t) ==
    /\ task[t].pc = "close_conn"
    /\ CloseReturns(t, task[t], None, browser_context,
                    liveConn \ {task[t].h}, liveCtx)

\* Line 239 resumes with an exception, which leaves the handler.
ConnCloseRaises(t) ==
    /\ task[t].pc = "close_conn"
    /\ \E released \in BOOLEAN :
        Set(browser, browser_context,
            IF released THEN liveConn \ {task[t].h} ELSE liveConn, liveCtx,
            created, t, Done(task[t], Raise(<<"connection close failed">>)))

\* ------------------------------------------------------- initialize_browser
\* Mutant: the session is built without closing the one that is open.
InvokeInitializeNoClose(t) ==
    /\ IsIdle(t)
    /\ ConstructSession(t, Call("initialize_browser"), browser, browser_context,
                        liveConn, liveCtx)

\* Lines 142-146: `if browser: await close_browser()`, then the build.
InvokeInitialize(t) ==
    /\ IsIdle(t)
    /\ LET rec == Call("initialize_browser")
       IN IF browser # None
          THEN CloseFromStart(t, rec)
          ELSE ConstructSession(t, rec, browser, browser_context, liveConn, liveCtx)

\* ------------------------------------------------------------ click_element
\* Reading an attribute of the global browser_context while it is None
\* raises AttributeError.
AttrErr == <<"'NoneType' object has no attribute">>

\* What the external library's calls may raise.
ClickErrors ==
    {<<"Element not found">>, <<"Failed to click element">>, <<"Timeout">>}

NotFoundMsg(i) ==
    <<"Element with index", Str(i),
      "does not exist - retry or use alternative actions">>
UploadMsg(i) ==
    <<"Index", Str(i), "- has an element which opens file upload dialog">>
DownloadMsg == <<"Downloaded file to", "path">>
ClickedMsg(i) == <<"Clicked button with index", Str(i), "label">>
NewTabMsg == <<"- New tab opened - switching to it">>
AfterWaitingMsg(i, e) ==
    <<"Failed to click element with index", Str(i), "even after waiting:">> \o e
ErrorClickingMsg(i, e) ==
    <<"Error clicking element with index", Str(i), ":">> \o e
        \o <<"Call inspect_page() and try finding the element again.">>

\* Mutant: only "Element not found" is retried.
RetryableNotFoundOnly(e) == Contains(e, "Element not found")

\* Line 335: the errors that are retried.
Retryable(e) ==
    Contains(e, "Element not found") \/ Contains(e, "Failed to click element")

\* Lines 334-356, the outer handler, entered with exception e: a retryable
\* error sleeps one second (line 337), any other is returned as text.
ClickHandler(t, rec, e) ==
    IF Retryable(e)
    THEN Local(t, [rec EXCEPT !.pc = "click_sleep", !.e1 = e])
    ELSE Local(t, Done([rec EXCEPT !.e1 = e],
                       Return(ErrorClickingMsg(rec.index, e))))

\* Lines 351-354, the handler of the retry block: whatever it caught, the
\* exception raised names the first error.
RetryHandler(t, rec, e) ==
    Local(t, Done(rec, Raise(AfterWaitingMsg(rec.index, rec.e1))))

\* The handler of the block the task is in: lines 321-333 or lines 338-350.
Caught(t, rec, e, retry) ==
    IF retry THEN RetryHandler(t, rec, e) ELSE ClickHandler(t, rec, e)

\* Lines 322 / 339: the call of browser_context._click_element_node.
ClickCall(t, rec, retry) ==
    IF browser_context = None
    THEN Caught(t, rec, AttrErr, retry)
    ELSE Local(t, [rec EXCEPT !.pc = IF retry THEN "click_2" ELSE "click_1",
                              !.calls = rec.calls + 1])

\* Lines 323-333 / 340-350, after the click returned: the result text is
\* built (the label is read from the element, which may raise), and when a
\* tab was opened the handler switches to it.
AfterClick(t, rec, retry) ==
    \E download, newtab \in BOOLEAN :
        LET m == (IF download THEN DownloadMsg ELSE ClickedMsg(rec.index))
            r == [rec EXCEPT !.clicks = rec.clicks + 1]
        IN IF ~newtab
           THEN Local(t, Done([r EXCEPT !.msg = m], Return(m)))
           ELSE IF browser_context = None
                THEN Caught(t, r, AttrErr, retry)
                ELSE Local(t, [r EXCEPT !.pc = IF retry THEN "click_sw2" ELSE "click_sw1",
                                        !.msg = m \o NewTabMsg, !.sw = rec.sw + 1])

LabelRaises(t, rec, retry) ==
    \E e \in ClickErrors :
        Caught(t, [rec EXCEPT !.clicks = rec.clicks + 1], e, retry)

\* The tool call click_element(index) arrives: line 308 reads the global and
\* awaits get_selector_map().
InvokeClick(t) ==
    /\ IsIdle(t)
    /\ \E i \in Indices :
        LET rec == [Call("click_element") EXCEPT !.index = i]
        IN IF browser_context = None
           THEN Local(t, Done(rec, Raise(AttrErr)))
           ELSE Local(t, [rec EXCEPT !.pc = "click_map"])

\* An attribute read outside the try block: lines 313, 314, 318.
ClickPrep(t, rec, next) ==
    IF browser_context = None
    THEN Local(t, Done(rec, Raise(AttrErr)))
    ELSE Local(t, [rec EXCEPT !.pc = next])

\* Mutant: the membership test of line 308 is missing.
ClickMapReturnsUnchecked(t) ==
    /\ task[t].pc = "click_map"
    /\ \E present \in BOOLEAN :
        ClickPrep(t, [task[t] EXCEPT !.inMap = present], "click_elem")

\* Lines 308-313: the selector map arrives; an index that is not in it
\* raises, otherwise the element is fetched.
ClickMapReturns(t) ==
    /\ task[t].pc = "click_map"
    /\ \E present \in BOOLEAN :
        IF ~present
        THEN Local(t, Done(task[t], Raise(NotFoundMsg(task[t].index))))
        ELSE ClickPrep(t, [task[t] EXCEPT !.inMap = TRUE], "click_elem")

\* Line 313 resumes, line 314 awaits get_session().
ClickElemReturns(t) ==
    /\ task[t].pc = "click_elem"
    /\ ClickPrep(t, task[t], "click_sess")

\* Line 314 resumes, line 318 awaits is_file_uploader(element_node).
ClickSessReturns(t) ==
    /\ task[t].pc = "click_sess"
    /\ ClickPrep(t, task[t], "click_upl")

\* Lines 318-322: a file uploader is reported, anything else is clicked.
ClickUplReturns(t) ==
    /\ task[t].pc = "click_upl"
    /\ \E uploader \in BOOLEAN :
        IF uploader
        THEN Local(t, Done(task[t], Return(UploadMsg(task[t].index))))
        ELSE ClickCall(t, task[t], FALSE)

\* A library call made before the try block raises: nothing catches it.
ClickPrepRaises(t) ==
    /\ task[t].pc \in {"click_map", "click_elem", "click_sess", "click_upl"}
    /\ Local(t, Done(task[t], Raise(<<"library error">>)))

\* Line 322 resumes.
Click1Returns(t) ==
    /\ task[t].pc = "click_1"
    /\ \/ AfterClick(t, task[t], FALSE)
       \/ LabelRaises(t, task[t], FALSE)

Click1Raises(t) ==
    /\ task[t].pc = "click_1"
    /\ \E e \in ClickErrors : ClickHandler(t, task[t], e)

\* Line 331 resumes.
ClickSwitch1Returns(t) ==
    /\ task[t].pc = "click_sw1"
    /\ Local(t, Done(task[t], Return(task[t].msg)))

ClickSwitch1Raises(t) ==
    /\ task[t].pc = "click_sw1"
    /\ \E e \in ClickErrors : ClickHandler(t, task[t], e)

\* Line 337 resumes: the retry, line 339.
ClickSleepReturns(t) ==
    /\ task[t].pc = "click_sleep"
    /\ ClickCall(t, task[t], TRUE)

\* Line 339 resumes.
Click2Returns(t) ==
    /\ task[t].pc = "click_2"
    /\ \/ AfterClick(t, task[t], TRUE)
       \/ LabelRaises(t, task[t], TRUE)

Click2Raises(t) ==
    /\ task[t].pc = "click_2"
    /\ \E e \in ClickErrors : RetryHandler(t, task[t], e)

\* Line 348 resumes.
ClickSwitch2Returns(t) ==
    /\ task[t].pc = "click_sw2"
    /\ Local(t, Done(task[t], Return(task[t].msg)))

ClickSwitch2Raises(t) ==
    /\ task[t].pc = "click_sw2"
    /\ \E e \in ClickErrors : RetryHandler(t, task[t], e)

\* --------------------------------------------------------------- input_text
InputNotFoundMsg(i) ==
    <<"Element index", Str(i),
      "does not exist - retry or use alternative actions">>

\* Mutant: the text is echoed whatever has_sensitive_data says.
InputTextResultLeaky(i, x, s) == <<"Input", x, "into index", Str(i)>>

\* Lines 378-381: the text that is returned.
InputTextResult(i, x, s) ==
    IF ~s
    THEN <<"Input", x, "into index", Str(i)>>
    ELSE <<"Input sensitive data into index", Str(i)>>

\* The tool call input_text(index, text, has_sensitive_data) arrives: line
\* 370 reads the global and awaits get_selector_map().
InvokeInput(t) ==
    /\ IsIdle(t)
    /\ \E i \in Indices, x \in Texts, s \in BOOLEAN :
        LET rec == [Call("input_text") EXCEPT !.index = i, !.text = x, !.sens = s]
        IN IF browser_context = None
           THEN Local(t, Done(rec, Raise(AttrErr)))
           ELSE Local(t, [rec EXCEPT !.pc = "input_map"])

\* Lines 370-375: an index that is not in the map raises, otherwise the
\* element is fetched.
InputMapReturns(t) ==
    /\ task[t].pc = "input_map"
    /\ \E present \in BOOLEAN :
        IF ~present
        THEN Local(t, Done(task[t], Raise(InputNotFoundMsg(task[t].index))))
        ELSE ClickPrep(t, [task[t] EXCEPT !.inMap = TRUE], "input_elem")

\* Line 375 resumes, line 376 awaits _input_text_element_node(element, text).
InputElemReturns(t) ==
    /\ task[t].pc = "input_elem"
    /\ ClickPrep(t, task[t], "input_write")

\* Line 376 resumes: the text is in the element, lines 378-381 return.
InputWriteReturns(t) ==
    /\ task[t].pc = "input_write"
    /\ LET rec == task[t]
       IN Local(t, Done([rec EXCEPT !.written = <<Str(rec.index), rec.text>>],
                        Return(InputTextResult(rec.index, rec.text, rec.sens))))

\* A library call of input_text raises: nothing catches it.
InputRaises(t) ==
    /\ task[t].pc \in {"input_map", "input_elem", "input_write"}
    /\ Local(t, Done(task[t], Raise(<<"library error">>)))

\* ------------------------------------------------------------ the other tools
\* The handlers whose first statement reads an attribute of browser_context
\* (lines 254, 269, 282, 393, 408, 420, 437, 455, 473, 623) and that are
\* followed no further than their outcome.
ContextTools ==
    {"search_google", "go_to_url", "go_back", "switch_tab", "open_tab",
     "inspect_page", "scroll_down", "scroll_up", "send_keys", "validate_page"}

\* wait (lines 295-296) sleeps and returns; it reads no global.
SimpleTools == ContextTools \cup {"wait"}

\* Mutant: go_back answers without touching the context.
ReadsContextExceptGoBack(tool) == tool \in ContextTools \ {"go_back"}

ReadsContext(tool) == tool \in ContextTools

\* A call of one of these tools arrives and runs to its first await.
InvokeTool(t) ==
    /\ IsIdle(t)
    /\ \E tool \in SimpleTools :
        IF ReadsContext(tool) /\ browser_context = None
        THEN Local(t, Done(Call(tool), Raise(AttrErr)))
        ELSE Local(t, [Call(tool) EXCEPT !.pc = "tool_wait"])

\* The awaits of the handler are over and it returns its text.
ToolReturns(t) ==
    /\ task[t].pc = "tool_wait"
    /\ Local(t, Done(task[t], Return(<<task[t].op, "confirmation">>)))

\* A library call of the handler raises (asyncio.sleep does not).
ToolRaises(t) ==
    /\ task[t].pc = "tool_wait"
    /\ task[t].op # "wait"
    /\ Local(t, Done(task[t], Raise(<<"library error">>)))

\* ----------------------------------------------------- get_dropdown_options
\* The frames of the page, page.frames: between one and MaxFrames of them.
FrameCounts == 1..MaxFrames

\* The option texts of the <select> a frame holds, when it holds it.
OptionTexts(k) ==
    CASE k = 1 -> <<"red", "green">>
      [] k = 2 -> <<"blue">>
      [] OTHER -> <<"grey">>

\* json.dumps of a str: the text between double quotes.
JsonDumps(x) == <<"\"", x, "\"">>

\* Line 549: f'{opt["index"]}: text={encoded_text}', opt.index counting from 0.
OptionLine(j, x) == <<Str(j - 1), ": text=">> \o JsonDumps(x)

\* Lines 546-549: the lines of one frame's options, in the order of the list.
FormattedOptions(texts) == [j \in DOMAIN texts |-> OptionLine(j, texts[j])]

\* "\n".join(lines)
RECURSIVE JoinLines(_)
JoinLines(lines) ==
    IF lines = <<>> THEN <<>>
    ELSE IF Len(lines) = 1 THEN lines[1]
    ELSE lines[1] \o <<"\n">> \o JoinLines(Tail(lines))

\* Lines 553-558: the text that is returned.
DropdownResult(lines) ==
    IF lines # <<>>
    THEN JoinLines(lines) \o <<"\n", "Use the exact text string in select_dropdown_option">>
    ELSE <<"No options found in any frame for dropdown">>

\* selector_map[index] with an index that is not a key (lines 522, 573).
KeyErr(i) == <<"KeyError", Str(i)>>

\* The tool call get_dropdown_options(index) arrives: line 520 reads the
\* global and awaits get_current_page().
InvokeDropdown(t) ==
    /\ IsIdle(t)
    /\ \E i \in Indices :
        LET rec == [Call("get_dropdown_options") EXCEPT !.index = i]
        IN IF browser_context = None
           THEN Local(t, Done(rec, Raise(AttrErr)))
           ELSE Local(t, [rec EXCEPT !.pc = "dd_page"])

\* Line 520 resumes, line 521 awaits get_selector_map().
DropdownPageReturns(t) ==
    /\ task[t].pc = "dd_page"
    /\ ClickPrep(t, task[t], "dd_map")

\* Lines 521-526: the map arrives, the element is looked up (KeyError when
\* the index is no key), and the loop over page.frames awaits the first
\* frame's evaluate.
DropdownMapReturns(t) ==
    /\ task[t].pc = "dd_map"
    /\ \E present \in BOOLEAN :
        IF ~present
        THEN Local(t, Done(task[t], Raise(KeyErr(task[t].index))))
        ELSE \E n \in FrameCounts :
                Local(t, [task[t] EXCEPT !.inMap = TRUE, !.nf = n, !.pc = "dd_frame"])

\* A library call before the loop raises: nothing catches it.
DropdownPrepRaises(t) ==
    /\ task[t].pc \in {"dd_page", "dd_map"}
    /\ Local(t, Done(task[t], Raise(<<"library error">>)))

\* Lines 524 and 553-558: the loop goes on to the next frame, and after the
\* last frame the handler returns what it collected.
DropdownNext(t, rec) ==
    IF Len(rec.probe) < rec.nf
    THEN Local(t, rec)
    ELSE Local(t, Done(rec, Return(DropdownResult(rec.opts))))

\* Lines 526-550: the frame's evaluate returns the control's options, which
\* are formatted and appended to all_options.
DropdownFrameFound(t) ==
    /\ task[t].pc = "dd_frame"
    /\ LET rec == task[t]
           k == Len(rec.probe) + 1
       IN DropdownNext(t, [rec EXCEPT !.probe = Append(rec.probe, "found"),
                                     !.opts = rec.opts \o FormattedOptions(OptionTexts(k))])

\* Lines 526-545: the frame's evaluate returns null, the frame does not hold
\* the control.
DropdownFrameAbsent(t) ==
    /\ task[t].pc = "dd_frame"
    /\ DropdownNext(t, [task[t] EXCEPT !.probe = Append(task[t].probe, "absent")])

\* A loop without lines 551-552: the frame's exception leaves the handler.
DropdownFrameRaisesAborts(t) ==
    /\ task[t].pc = "dd_frame"
    /\ Local(t, Done([task[t] EXCEPT !.probe = Append(task[t].probe, "raises")],
                     Raise(<<"library error">>)))

\* Lines 551-552: the frame's evaluate raises, `except Exception: pass`.
DropdownFrameRaises(t) ==
    /\ task[t].pc = "dd_frame"
    /\ DropdownNext(t, [task[t] EXCEPT !.probe = Append(task[t].probe, "raises")])

\* ------------------------------------------------------------ scroll_to_text
\* Lines 495-499: the three locators, in the order of the list.
Locators == <<"get_by_text", "text=", "xpath contains(text())">>

ScrolledMsg(x) == <<"Scrolled to text:", x>>
TextNotFoundMsg(x) == <<"Text '", x, "' not found or not visible on page">>

\* The locator the loop of line 500 is at: the one after those it is through.
Locator(rec) == Locators[Len(rec.probe) + 1]

\* The tool call scroll_to_text(text) arrives: line 494 reads the global and
\* awaits get_current_page().
InvokeScrollToText(t) ==
    /\ IsIdle(t)
    /\ \E x \in Texts :
        LET rec == [Call("scroll_to_text") EXCEPT !.text = x]
        IN IF browser_context = None
           THEN Local(t, Done(rec, Raise(AttrErr)))
           ELSE Local(t, [rec EXCEPT !.pc = "st_page"])

\* Lines 494-502: the page arrives, the locators are built and the loop
\* awaits the first locator's count().
ScrollPageReturns(t) ==
    /\ task[t].pc = "st_page"
    /\ Local(t, [task[t] EXCEPT !.pc = "st_count"])

\* get_current_page() raises: nothing catches it.
ScrollPageRaises(t) ==
    /\ task[t].pc = "st_page"
    /\ Local(t, Done(task[t], Raise(<<"library error">>)))

\* Lines 500 and 508: the loop is through with a locator (outcome out) and
\* goes on to the next one; after the last one the handler returns.
ScrollNextLocator(t, rec, out) ==
    LET r == [rec EXCEPT !.probe = Append(rec.probe, <<Locator(rec), out>>)]
    IN IF Len(r.probe) < Len(Locators)
       THEN Local(t, [r EXCEPT !.pc = "st_count"])
       ELSE Local(t, Done(r, Return(TextNotFoundMsg(r.text))))

\* Line 502: count() returns; when it is positive is_visible() of the first
\* match is awaited.
ScrollCountReturns(t) ==
    /\ task[t].pc = "st_count"
    /\ \E matches \in BOOLEAN :
        IF matches
        THEN Local(t, [task[t] EXCEPT !.pc = "st_visible"])
        ELSE ScrollNextLocator(t, task[t], "no visible match")

\* Lines 502-503: is_visible() returns; when it is true the scroll is awaited.
ScrollVisibleReturns(t) ==
    /\ task[t].pc = "st_visible"
    /\ \E visible \in BOOLEAN :
        IF visible
        THEN Local(t, [task[t] EXCEPT !.pc = "st_scroll"])
        ELSE ScrollNextLocator(t, task[t], "no visible match")

\* Lines 503-504: scroll_into_view_if_needed() returns, the handler sleeps.
ScrollIntoViewReturns(t) ==
    /\ task[t].pc = "st_scroll"
    /\ Local(t, [task[t] EXCEPT !.pc = "st_sleep",
                                !.probe = Append(task[t].probe,
                                                 <<Locator(task[t]), "scrolled">>)])

\* Lines 504-505: the sleep is over, the handler returns.
ScrollSleepReturns(t) ==
    /\ task[t].pc = "st_sleep"
    /\ Local(t, Done(task[t], Return(ScrolledMsg(task[t].text))))

\* A loop without lines 506-507: the locator's exception leaves the handler.
ScrollLocatorRaisesAborts(t) ==
    /\ task[t].pc \in {"st_count", "st_visible", "st_scroll"}
    /\ Local(t, Done([task[t] EXCEPT !.probe = Append(task[t].probe,
                                                      <<Locator(task[t]), "raises">>)],
                     Raise(<<"library error">>)))

\* Lines 506-507: count(), is_visible() or the scroll raises,
\* `except Exception: continue`.
ScrollLocatorRaises(t) ==
    /\ task[t].pc \in {"st_count", "st_visible", "st_scroll"}
    /\ ScrollNextLocator(t, task[t], "raises")

\* ---------------------------------------------------- select_dropdown_option
\* dom_element.tag_name of the element the index resolves to.
TagNames == {"select", "div"}

CannotSelectMsg(i, tg) ==
    <<"Cannot select option: Element with index", Str(i), "is a", tg, ", not a select">>
SelectedMsg(x) == <<"Selected option", x, "with value", "selected_option_values">>
CouldNotSelectMsg(x) == <<"Could not select option '", x, "' in any frame">>

\* The tool call select_dropdown_option(index, text) arrives: line 571 reads
\* the global and awaits get_current_page().
InvokeSelect(t) ==
    /\ IsIdle(t)
    /\ \E i \in Indices, x \in Texts :
        LET rec == [Call("select_dropdown_option") EXCEPT !.index = i, !.text = x]
        IN IF browser_context = None
           THEN Local(t, Done(rec, Raise(AttrErr)))
           ELSE Local(t, [rec EXCEPT !.pc = "sel_page"])

\* Line 571 resumes, line 572 awaits get_selector_map().
SelectPageReturns(t) ==
    /\ task[t].pc = "sel_page"
    /\ ClickPrep(t, task[t], "sel_map")

\* Lines 572-601: the map arrives, the element is looked up (KeyError when
\* the index is no key), an element that is no <select> is refused, and the
\* loop over page.frames awaits the first frame's evaluate.
SelectMapReturns(t) ==
    /\ task[t].pc = "sel_map"
    /\ \E present \in BOOLEAN :
        IF ~present
        THEN Local(t, Done(task[t], Raise(KeyErr(task[t].index))))
        ELSE \E tg \in TagNames :
                LET rec == [task[t] EXCEPT !.inMap = TRUE, !.tag = tg]
                IN IF tg # "select"
                   THEN Local(t, Done(rec, Return(CannotSelectMsg(rec.index, tg))))
                   ELSE \E n \in FrameCounts :
                           Local(t, [rec EXCEPT !.nf = n, !.pc = "sel_frame"])

\* A library call before the loop raises: nothing catches it.
SelectPrepRaises(t) ==
    /\ task[t].pc \in {"sel_page", "sel_map"}
    /\ Local(t, Done(task[t], Raise(<<"library error">>)))

\* Lines 576 and 611: the loop is through with a frame (outcome out) and goes
\* on to the next one; after the last frame the handler returns.
SelectNextFrame(t, rec, out) ==
    LET r == [rec EXCEPT !.probe = Append(rec.probe, out)]
    IN IF Len(r.probe) < r.nf
       THEN Local(t, [r EXCEPT !.pc = "sel_frame"])
       ELSE Local(t, Done(r, Return(CouldNotSelectMsg(r.text))))

\* Lines 601-606: the frame's evaluate returns; when it reports the control
\* (found: true) select_option is awaited on that frame.
SelectFrameReturns(t) ==
    /\ task[t].pc = "sel_frame"
    /\ \E found \in BOOLEAN :
        IF found
        THEN Local(t, [task[t] EXCEPT !.pc = "sel_select"])
        ELSE SelectNextFrame(t, task[t], "absent")

\* A loop without line 608: after the selection the next frame is probed.
SelectOptionReturnsGoesOn(t) ==
    /\ task[t].pc = "sel_select"
    /\ SelectNextFrame(t, task[t], "selected")

\* Lines 603-608: select_option returns the selected values, the handler
\* returns.
SelectOptionReturns(t) ==
    /\ task[t].pc = "sel_select"
    /\ Local(t, Done([task[t] EXCEPT !.probe = Append(task[t].probe, "selected")],
                     Return(SelectedMsg(task[t].text))))

\* Lines 609-610: the frame's evaluate or select_option raises,
\* `except Exception: pass`.
SelectFrameRaises(t) ==
    /\ task[t].pc \in {"sel_frame", "sel_select"}
    /\ SelectNextFrame(t, task[t],
                       IF task[t].pc = "sel_select" THEN "select raises" ELSE "raises")

\* done (line 642) touches nothing and returns its record.
InvokeDone(t) ==
    /\ IsIdle(t)
    /\ Local(t, Done(Call("done"), Return(<<"is_done">>)))

\* The result of a finished invocation is delivered and the task ends.
Complete(t) ==
    /\ task[t].pc = "done"
    /\ Local(t, Idle)

\* ------------------------------------------------------------ specification
Init ==
    /\ browser = None
    /\ browser_context = None
    /\ liveConn = {}
    /\ liveCtx = {}
    /\ created = 0
    /\ task = [t \in Tasks |-> Idle]

\* A tool call arrives.
Invoke(t) ==
    \/ InvokeInitialize(t)
    \/ InvokeClose(t)
    \/ InvokeClick(t)
    \/ InvokeInput(t)
    \/ InvokeTool(t)
    \/ InvokeDone(t)
    \/ InvokeDropdown(t)
    \/ InvokeScrollToText(t)
    \/ InvokeSelect(t)

\* A suspended handler resumes.
Resume(t) ==
    \/ CtxCloseReturns(t)
    \/ CtxCloseRaises(t)
    \/ ConnCloseReturns(t)
    \/ ConnCloseRaises(t)
    \/ ClickMapReturns(t)
    \/ ClickElemReturns(t)
    \/ ClickSessReturns(t)
    \/ ClickUplReturns(t)
    \/ ClickPrepRaises(t)
    \/ Click1Returns(t)
    \/ Click1Raises(t)
    \/ ClickSwitch1Returns(t)
    \/ ClickSwitch1Raises(t)
    \/ ClickSleepReturns(t)
    \/ Click2Returns(t)
    \/ Click2Raises(t)
    \/ ClickSwitch2Returns(t)
    \/ ClickSwitch2Raises(t)
    \/ InputMapReturns(t)
    \/ InputElemReturns(t)
    \/ InputWriteReturns(t)
    \/ InputRaises(t)
    \/ ToolReturns(t)
    \/ ToolRaises(t)
    \/ DropdownPageReturns(t)
    \/ DropdownMapReturns(t)
    \/ DropdownPrepRaises(t)
    \/ DropdownFrameFound(t)
    \/ DropdownFrameAbsent(t)
    \/ DropdownFrameRaises(t)
    \/ ScrollPageReturns(t)
    \/ ScrollPageRaises(t)
    \/ ScrollCountReturns(t)
    \/ ScrollVisibleReturns(t)
    \/ ScrollIntoViewReturns(t)
    \/ ScrollSleepReturns(t)
    \/ ScrollLocatorRaises(t)
    \/ SelectPageReturns(t)
    \/ SelectMapReturns(t)
    \/ SelectPrepRaises(t)
    \/ SelectFrameReturns(t)
    \/ SelectOptionReturns(t)
    \/ SelectFrameRaises(t)

Next ==
    \E t \in Tasks :
        \/ Invoke(t)
        \/ Resume(t)
        \/ Complete(t)

\* Tool calls are dispatched as they arrive: invocations interleave at awaits.
Spec == Init /\ [][Next]_vars

\* The one-call-at-a-time regime: a tool call arrives only when no other is
\* running.
NoneRunning == \A u \in Tasks : IsIdle(u)

NextSeq ==
    \E t \in Tasks :
        \/ NoneRunning /\ InvokeInitialize(t)
        \/ NoneRunning /\ InvokeClose(t)
        \/ NoneRunning /\ InvokeClick(t)
        \/ NoneRunning /\ InvokeInput(t)
        \/ NoneRunning /\ InvokeTool(t)
        \/ NoneRunning /\ InvokeDone(t)
        \/ NoneRunning /\ InvokeDropdown(t)
        \/ NoneRunning /\ InvokeScrollToText(t)
        \/ NoneRunning /\ InvokeSelect(t)
        \/ Resume(t)
        \/ Complete(t)

SpecSeq == Init /\ [][NextSeq]_vars

\* ==================================================================== claims

IsOp(t, o) == task[t].op = o
Finished(t, o) == task[t].op = o /\ task[t].pc = "done"
SessionVars == <<browser, browser_context, liveConn, liveCtx, created>>

\* C1: in every reachable state the context (browser_context) is non-null
\* only if the connection (browser) is non-null.
ContextOnlyWithConnection == browser_context # None => browser # None

\* C2: initialize_browser called in succession, each call awaited before the
\* next, leaks nothing: when a call returns exactly one connection and one
\* context are live, the ones the session references, and whenever a
\* connection is constructed every earlier connection and context has been
\* closed (close-before-open).
InitializeTwiceNoLeak ==
    /\ [](\A t \in Tasks :
            (Finished(t, "initialize_browser") /\ Returned(t)) =>
                /\ browser # None
                /\ browser_context = browser
                /\ liveConn = {browser}
                /\ liveCtx = {browser_context})
    /\ [][created' > created =>
            /\ liveConn' = {created'}
            /\ liveCtx' \subseteq {created'}]_vars

\* A second initialize_browser has returned, having closed the context and
\* the connection of the first session on its way.
SecondInitializeReturned ==
    \E t \in Tasks :
        /\ Finished(t, "initialize_browser")
        /\ Returned(t)
        /\ task[t].rel = <<"context", "connection">>
        /\ created = 2

\* C3: at most one connection is constructed and not closed, and every such
\* connection is the one the session state references, under every
\* interleaving of initialize_browser and close_browser.
OneLiveSession == Cardinality(liveConn) <= 1 /\ liveConn \subseteq {browser}

\* C4: close_browser called with no session open (connection and context both
\* absent) makes no release call, leaves the session state as it was, and
\* returns the success text without raising.
CloseIdempotent ==
    [][\A t \in Tasks :
        (/\ IsIdle(t)
         /\ task'[t].op = "close_browser"
         /\ browser = None
         /\ browser_context = None) =>
            /\ task'[t].pc = "done"
            /\ task'[t].res = <<"return", "Browser closed successfully">>
            /\ task'[t].rel = <<>>
            /\ SessionVars' = SessionVars]_vars

\* close_browser has returned from a call made with nothing open, after a
\* session had been opened and closed before.
ClosedTwice ==
    \E t \in Tasks :
        /\ Finished(t, "close_browser")
        /\ Returned(t)
        /\ task[t].rel = <<>>
        /\ created > 0
        /\ browser = None
        /\ browser_context = None

\* C5: close_browser releases the context first and the connection second,
\* each only if present; while the connection is being released no context
\* is recorded any more, and the context bound to it has been closed; when
\* close_browser returns, connection and context are both absent (CLOSED).
CloseOrder ==
    \A t \in Tasks :
        /\ task[t].rel \in
              {<<>>, <<"context">>, <<"connection">>, <<"context", "connection">>}
        /\ task[t].pc = "close_ctx" =>
              /\ task[t].h # None
              /\ task[t].h = browser_context
              /\ task[t].rel = <<"context">>
        /\ task[t].pc = "close_conn" =>
              /\ task[t].h # None
              /\ task[t].h = browser
              /\ browser_context = None
              /\ task[t].h \notin liveCtx
        /\ (Finished(t, "close_browser") /\ Returned(t)) =>
              /\ browser = None
              /\ browser_context = None
              /\ liveConn = {}
              /\ liveCtx = {}

\* close_browser has returned from a call on an open session: both handles
\* were released.
ClosedOpenSession ==
    \E t \in Tasks :
        /\ Finished(t, "close_browser")
        /\ Returned(t)
        /\ task[t].rel = <<"context", "connection">>

\* C6: in close_browser a failure releasing the context does not prevent the
\* release of the connection from being attempted in the same invocation.
IndependentRelease ==
    \A t \in Tasks :
        (/\ task[t].pc = "done"
         /\ task[t].res = <<"raise", "context close failed">>
         /\ browser # None) =>
            Contains(task[t].rel, "connection")

\* The tools C7 names.
OpenOnlyTools ==
    {"search_google", "go_to_url", "go_back", "click_element", "input_text",
     "switch_tab", "open_tab", "inspect_page", "scroll_down", "scroll_up",
     "send_keys", "scroll_to_text", "get_dropdown_options",
     "select_dropdown_option", "validate_page"}

FailsWhenClosed(t) ==
    /\ task[t].pc = "done"
    /\ Raised(t)
    /\ browser_context = None
    /\ task[t].calls = 0
    /\ task[t].written = <<>>

\* C7 as stated: every tool other than initialize_browser, close_browser and
\* done, wait included, fails with an error when it is called while the
\* session is CLOSED, and leaves the session CLOSED.
RequiresOpenAll ==
    \A t \in Tasks :
        (/\ task[t].pc = "done"
         /\ task[t].closed
         /\ task[t].op \in OpenOnlyTools \cup {"wait"}) =>
            /\ Raised(t)
            /\ browser_context = None

\* C7 as amended: every tool other than initialize_browser, close_browser,
\* done and wait fails with an error when it is called while the session is
\* CLOSED, and leaves the session CLOSED; wait uses no session and returns
\* its confirmation.
RequiresOpen ==
    \A t \in Tasks :
        /\ (task[t].closed /\ task[t].op \in OpenOnlyTools) => FailsWhenClosed(t)
        /\ Finished(t, "wait") => Returned(t)

\* Some tool that reads the page was called with no session and has failed.
ToolFailedClosed ==
    \E t \in Tasks :
        /\ Finished(t, "go_back")
        /\ task[t].closed
        /\ Raised(t)

\* C8: click_element with an index that is not in the selector map raises the
\* not-found error before any other step: no click, no retry, no tab switch,
\* and the session state is not touched.
ClickAbsentIndex ==
    /\ [](\A t \in Tasks :
            (IsOp(t, "click_element") /\ ~task[t].inMap) =>
                /\ task[t].calls = 0
                /\ task[t].clicks = 0
                /\ task[t].sw = 0
                /\ task[t].pc \in {"click_map", "done"}
                /\ task[t].pc = "done" =>
                      /\ Raised(t)
                      /\ (~task[t].closed /\ task[t].res # <<"raise", "library error">>) =>
                            task[t].res =
                                <<"raise", "Element with index", Str(task[t].index),
                                  "does not exist - retry or use alternative actions">>)
    /\ [][(\E t \in Tasks : task[t].pc = "click_map" /\ task'[t].pc = "done")
            => SessionVars' = SessionVars]_vars

\* click_element raised the not-found error on an open session.
ClickNotFoundRaised ==
    \E t \in Tasks :
        /\ Finished(t, "click_element")
        /\ ~task[t].inMap
        /\ task[t].res[2] = "Element with index"
        /\ browser_context # None

\* The errors the retry policy names.
RetryClass(e) ==
    Contains(e, "Element not found") \/ Contains(e, "Failed to click element")

NormalResults(i) ==
    {<<"return", "Downloaded file to", "path">>,
     <<"return", "Clicked button with index", Str(i), "label">>,
     <<"return", "Downloaded file to", "path", "- New tab opened - switching to it">>,
     <<"return", "Clicked button with index", Str(i), "label",
       "- New tab opened - switching to it">>}

\* C9: within one click_element invocation the click is attempted at most
\* twice.  When the first attempt fails with a "not found" or "failed to
\* click" error exactly one retry is made: a retry that succeeds returns the
\* normal click or download result, a retry that fails raises to the caller.
\* When the first attempt fails with any other error there is no retry and a
\* descriptive error text is returned, not raised.  (An attempt is the click
\* with the steps guarded with it: building the text, switching the tab.)
ClickRetryPolicy ==
    \A t \in Tasks :
        IsOp(t, "click_element") =>
            /\ task[t].calls <= 2
            /\ task[t].clicks <= task[t].calls
            /\ task[t].calls = 2 => RetryClass(task[t].e1)
            /\ (task[t].pc = "done" /\ task[t].e1 # <<>> /\ RetryClass(task[t].e1)) =>
                  /\ task[t].calls = 2
                  /\ Returned(t) => task[t].res \in NormalResults(task[t].index)
                  /\ Raised(t) =>
                        task[t].res =
                            <<"raise", "Failed to click element with index",
                              Str(task[t].index), "even after waiting:">> \o task[t].e1
            /\ (task[t].pc = "done" /\ task[t].e1 # <<>> /\ ~RetryClass(task[t].e1)) =>
                  /\ task[t].calls = 1
                  /\ Returned(t)
                  /\ task[t].res[2] = "Error clicking element with index"
                  /\ \E k \in DOMAIN task[t].res : task[t].res[k] = task[t].e1[1]
            /\ (task[t].pc = "done" /\ task[t].e1 = <<>> /\ task[t].calls = 1) =>
                  task[t].res \in NormalResults(task[t].index)

\* The first click raised "Failed to click element", the retried click went
\* through, and the click confirmation was returned.
ClickRetrySucceeded ==
    \E t \in Tasks :
        /\ Finished(t, "click_element")
        /\ task[t].e1 = <<"Failed to click element">>
        /\ task[t].calls = 2
        /\ task[t].clicks = 1
        /\ task[t].res = <<"return", "Clicked button with index", Str(task[t].index), "label">>

\* C10: input_text with has_sensitive_data=true returns a text that depends
\* on the index alone (the same for every text argument); with
\* has_sensitive_data=false the returned text contains the literal text; in
\* both cases the text was written to the element; an index that is not in
\* the map raises before anything is written.
InputTextNarration ==
    \A t \in Tasks :
        IsOp(t, "input_text") =>
            /\ (task[t].pc = "done" /\ Returned(t)) =>
                  /\ task[t].inMap
                  /\ task[t].written = <<Str(task[t].index), task[t].text>>
                  /\ task[t].sens =>
                        task[t].res =
                            <<"return", "Input sensitive data into index", Str(task[t].index)>>
                  /\ ~task[t].sens => Contains(task[t].res, task[t].text)
            /\ ~task[t].inMap =>
                  /\ task[t].written = <<>>
                  /\ task[t].pc \in {"input_map", "done"}
                  /\ task[t].pc = "done" => Raised(t)

\* input_text wrote a sensitive text and returned.
SensitiveInputReturned ==
    \E t \in Tasks :
        /\ Finished(t, "input_text")
        /\ Returned(t)
        /\ task[t].sens
        /\ task[t].written = <<Str(task[t].index), "hunter2">>

\* The lines get_dropdown_options owes for the k-th frame of the page when
\* that frame holds the control.
FrameLines(k) ==
    CASE k = 1 -> << <<"0", ": text=", "\"", "red", "\"">>,
                     <<"1", ": text=", "\"", "green", "\"">> >>
      [] k = 2 -> << <<"0", ": text=", "\"", "blue", "\"">> >>
      [] OTHER -> << <<"0", ": text=", "\"", "grey", "\"">> >>

\* The lines owed after the outcomes pr of the first Len(pr) frames: those of
\* the frames that answered with the control, in the order of the frames.
RECURSIVE LinesOwed(_)
LinesOwed(pr) ==
    IF pr = <<>> THEN <<>>
    ELSE LET k == Len(pr)
         IN LinesOwed(SubSeq(pr, 1, k - 1)) \o
            (IF pr[k] = "found" THEN FrameLines(k) ELSE <<>>)

RECURSIVE Flat(_)
Flat(lines) ==
    IF lines = <<>> THEN <<>>
    ELSE lines[1] \o (IF Len(lines) > 1 THEN <<"\n">> ELSE <<>>) \o Flat(Tail(lines))

\* C11: get_dropdown_options, once it has the element, visits every frame of
\* the page in order: it never stops before the last frame, a frame whose
\* evaluation raises or does not hold the control adds nothing, and the call
\* returns (never raises) the options of exactly the frames that answered
\* with the control, in frame order, followed by the usage hint; when no
\* frame answered with the control it returns the 'no options found' text.
DropdownAllFrames ==
    \A t \in Tasks :
        (IsOp(t, "get_dropdown_options") /\ task[t].nf > 0) =>
            /\ task[t].pc \in {"dd_frame", "done"}
            /\ task[t].opts = LinesOwed(task[t].probe)
            /\ task[t].pc = "dd_frame" => Len(task[t].probe) < task[t].nf
            /\ task[t].pc = "done" =>
                  /\ Len(task[t].probe) = task[t].nf
                  /\ Returned(t)
                  /\ IF \E k \in DOMAIN task[t].probe : task[t].probe[k] = "found"
                     THEN task[t].res =
                            <<"return">> \o Flat(LinesOwed(task[t].probe)) \o
                            <<"\n", "Use the exact text string in select_dropdown_option">>
                     ELSE task[t].res =
                            <<"return", "No options found in any frame for dropdown">>

\* get_dropdown_options returned the second frame's options after the first
\* frame's evaluation raised.
DropdownAfterRaisingFrame ==
    \E t \in Tasks :
        /\ Finished(t, "get_dropdown_options")
        /\ task[t].probe = <<"raises", "found">>
        /\ task[t].res =
              <<"return", "0", ": text=", "\"", "blue", "\"", "\n",
                "Use the exact text string in select_dropdown_option">>

\* The order in which scroll_to_text owes its strategies: text match, CSS
\* text selector, XPath text-contains.
StrategyOrder == <<"get_by_text", "text=", "xpath contains(text())">>

\* C12: scroll_to_text consults its strategies in the fixed order text
\* match, CSS text selector, XPath text-contains; a strategy is consulted
\* only when every earlier one raised, matched nothing or matched nothing
\* visible; the first strategy with a visible match is the one scrolled to
\* and no strategy is consulted after it; a strategy that raises is skipped;
\* once the strategies are being consulted the call never raises: it returns
\* the 'scrolled' text after a scroll and the 'not found' text after all
\* three strategies were consulted without one.
ScrollFirstVisibleStrategy ==
    \A t \in Tasks :
        IsOp(t, "scroll_to_text") =>
            LET pr == task[t].probe
                n == Len(pr)
            IN /\ n <= 3
               /\ \A k \in 1..n :
                     /\ pr[k][1] = StrategyOrder[k]
                     /\ pr[k][2] = "scrolled" => k = n
               /\ task[t].pc \in {"st_count", "st_visible", "st_scroll"} =>
                     n < 3 /\ (n > 0 => pr[n][2] # "scrolled")
               /\ task[t].pc = "st_sleep" => n > 0 /\ pr[n][2] = "scrolled"
               /\ (task[t].pc = "done" /\ n = 0) => Raised(t)
               /\ (task[t].pc = "done" /\ n > 0) =>
                     IF pr[n][2] = "scrolled"
                     THEN task[t].res = <<"return", "Scrolled to text:", task[t].text>>
                     ELSE /\ n = 3
                          /\ task[t].res =
                                <<"return", "Text '", task[t].text,
                                  "' not found or not visible on page">>

\* scroll_to_text scrolled to the match of its second strategy after the first
\* strategy raised.
ScrolledAfterRaisingStrategy ==
    \E t \in Tasks :
        /\ Finished(t, "scroll_to_text")
        /\ Returned(t)
        /\ task[t].probe = << <<"get_by_text", "raises">>, <<"text=", "scrolled">> >>

\* C13 as stated, its first-frame rule: the frame whose control is selected is
\* the first frame, in the order of page.frames, where the control was found.
SelectOnFirstFrameFound ==
    \A t \in Tasks :
        IsOp(t, "select_dropdown_option") =>
            \A k \in DOMAIN task[t].probe :
                task[t].probe[k] = "selected" =>
                    \A j \in 1..(k - 1) : task[t].probe[j] # "select raises"

\* C13 as amended: select_dropdown_option refuses an element whose tag is not
\* "select" at once, with the 'cannot select' text and no frame probed;
\* otherwise the frames are probed in order, the selection is made on the
\* first frame that reports the control and whose select_option returns, the
\* call returns the 'selected' text right then, so that at most one frame's
\* control is selected and no frame is probed after it; a frame whose
\* evaluation or selection raises is passed over; when every frame was
\* probed without a selection the 'could not select' text is returned; once
\* the element is looked up nothing is raised.
SelectFirstFrameWins ==
    \A t \in Tasks :
        (IsOp(t, "select_dropdown_option") /\ task[t].tag # "") =>
            LET pr == task[t].probe
                n == Len(pr)
            IN /\ task[t].tag # "select" =>
                     /\ n = 0 /\ task[t].nf = 0
                     /\ task[t].res =
                           <<"return", "Cannot select option: Element with index",
                             Str(task[t].index), "is a", task[t].tag, ", not a select">>
               /\ task[t].pc \in {"sel_frame", "sel_select", "done"}
               /\ task[t].pc = "done" => Returned(t)
               /\ \A k \in 1..n : pr[k] = "selected" => k = n
               /\ task[t].pc \in {"sel_frame", "sel_select"} =>
                     n < task[t].nf /\ (n > 0 => pr[n] # "selected")
               /\ (task[t].pc = "done" /\ task[t].tag = "select") =>
                     IF n > 0 /\ pr[n] = "selected"
                     THEN task[t].res =
                            <<"return", "Selected option", task[t].text,
                              "with value", "selected_option_values">>
                     ELSE /\ n = task[t].nf
                          /\ task[t].res =
                                <<"return", "Could not select option '", task[t].text,
                                  "' in any frame">>

\* select_dropdown_option selected on the first of two frames and returned
\* without probing the second.
SelectedOnFirstFrame ==
    \E t \in Tasks :
        /\ Finished(t, "select_dropdown_option")
        /\ Returned(t)
        /\ task[t].nf = 2
        /\ task[t].probe = <<"selected">>

\* C14: within one click_element invocation _click_element_node returns (the
\* element is clicked) at most once, and the retry of lines 337-339 is
\* entered only when the first click call itself failed, never after a first
\* click that returned: an error of a later step of the same try block
\* (building the text, switching to the new tab) causes no second click.
ClickedAtMostOnce ==
    \A t \in Tasks :
        IsOp(t, "click_element") =>
            /\ task[t].clicks <= 1
            /\ task[t].pc \in {"click_sleep", "click_2"} => task[t].clicks = 0

====
